---- MODULE Spec2Model ----
(***************************************************************************)
(* The three publishing handlers of the ShoeSwiper content pipeline:       *)
(*   html_generator.lambda_handler   (static HTML pages)                   *)
(*   rss_handler.lambda_handler      (RSS 2.0 and Atom feeds, OPML)        *)
(*   sitemap_handler.lambda_handler  (sitemaps, index, robots.txt, pings)  *)
(* Each invocation walks its list of categories one loop iteration at a    *)
(* time.  The storage table, the object store and the search engines are   *)
(* the environment: their failures are chosen nondeterministically.        *)
(* Three specifications: Spec runs the handlers, Render calls the          *)
(* renderers and the content generator on their own, Paging runs           *)
(* SitemapGenerator.fetch_posts query by query.                            *)
(***************************************************************************)
EXTENDS Integers, Sequences, FiniteSets, TLC

(***************************************************************************)
(* Bounds of the model.                                                    *)
(***************************************************************************)
\* environment failures (storage read, upload, ping) per behaviour
MaxFaults == 1
\* invocations of the same handler with the same event per behaviour
MaxRuns == 2
\* the clock is read on one of the days FirstDay .. FirstDay + DaySpan
DaySpan == 3
\* length of the month the days are counted in
DaysInMonth == 30

(***************************************************************************)
(* State.                                                                  *)
(***************************************************************************)
VARIABLES
  table,      \* the posts table
  store,      \* the keys that hold a document in the object store
  run,        \* number of the invocation, 1 ..
  handler,    \* the handler invoked: "html", "rss", "sitemap"; "none" before
  event,      \* its payload
  today,      \* the day the sitemap handler read from the clock, 0 if unread
  pc,         \* "idle", "loop", "tail", "done", "raised"
  todo,       \* the categories the loop has still to visit
  visited,    \* the categories the loop visited, in order
  fetched,    \* per category: how the posts were read, the posts, the pages
  news,       \* per category: what generate_news_sitemap returned
  attempted,  \* keys handed to upload_to_s3 by this invocation
  written,    \* keys upload_to_s3 stored in this invocation
  rendered,   \* <<key, post id>>: the post is in the document handed over
  listed,     \* keys the response lists as generated / published
  errors,     \* error entries of the response
  status,     \* statusCode of the response, 0 before the handler returns
  indexed,    \* sitemaps_info: the keys the sitemap index is built from
  pings,      \* results['pings']: per engine "ok" or "fail", "none" if unset
  failed,     \* a fetch, render or upload failed in this invocation
  faults,     \* environment failures so far
  prev,       \* what the previous invocation read, attempted and wrote
  scanned,    \* categories whose posts this invocation asked a scan for
  arg,        \* the input handed to a renderer called on its own
  out         \* what that renderer handed back

vars ==
  <<table, store, run, handler, event, today, pc, todo, visited, fetched,
    news, attempted, written, rendered, listed, errors, status, indexed,
    pings, failed, faults, prev, scanned, arg, out>>

\* the state of the three publishing handlers
hvars ==
  <<table, store, run, handler, event, today, pc, todo, visited, fetched,
    news, attempted, written, rendered, listed, errors, status, indexed,
    pings, failed, faults, prev, scanned>>

(***************************************************************************)
(* Static configuration.                                                   *)
(***************************************************************************)
\* list(BLOG_CONFIGS.keys()): the four categories, in insertion order
ConfigOrder == <<"sneaker", "shoes", "workwear", "music">>

BLOG_CONFIGS == {ConfigOrder[i] : i \in 1..Len(ConfigOrder)}

\* config['path']
Path(c) ==
  CASE c = "sneaker" -> "blog/sneaker"
    [] c = "shoes" -> "blog/shoes"
    [] c = "workwear" -> "blog/workwear"
    [] c = "music" -> "blog/music"

\* SEARCH_ENGINE_PINGS, in insertion order
SEARCH_ENGINE_PINGS == <<"google", "bing", "yandex">>

\* a category name that is in no configuration table
Unknown == "boots"

\* a field the payload or the record does not carry
Absent == "absent"

(***************************************************************************)
(* The calendar.  A day is a day number; published_at carries the day the  *)
(* post was published on.                                                  *)
(***************************************************************************)
\* the last day of a month; the days after it are the first of the next
FirstDay == DaysInMonth

Days == FirstDay .. (FirstDay + DaySpan)

\* datetime.day: the day of the month, 1 .. DaysInMonth
DayOfMonth(d) == ((d - 1) % DaysInMonth) + 1

(***************************************************************************)
(* Post records.  pub is published_at: kind "iso" is an ISO-8601 string    *)
(* with an offset, "naive" one without an offset, "bad" a string that      *)
(* datetime.fromisoformat rejects, Absent a missing key.  upd is the kind  *)
(* of updated_at.  price is "num" for numeric product prices, "bad" for a  *)
(* product whose price strings float() rejects, "none" for no products.    *)
(***************************************************************************)
Post(id, slug, kind, day, upd, price) ==
  [id |-> id, slug |-> slug, pub |-> [kind |-> kind, day |-> day],
   upd |-> upd, price |-> price]

PFresh  == Post("p1", "fresh-drop", "iso", FirstDay + 1, Absent, "num")
PBadPub == Post("p2", "bad-date", "bad", 0, Absent, "none")
PBadPrc == Post("p3", "bad-price", "iso", FirstDay, Absent, "bad")
PBadUpd == Post("p4", Absent, "iso", FirstDay - 1, "bad", "none")
PNaive  == Post("p5", "naive-date", "naive", FirstDay + 2, Absent, "none")
PNew    == Post("q1", "new-release", "iso", FirstDay + 2, "iso", "num")
POld    == Post("q2", Absent, "iso", FirstDay - 5, Absent, "none")
PMid    == Post("q3", "mid-week", "iso", FirstDay, Absent, "num")
PAged   == Post("q4", "archive", "iso", FirstDay - 9, "iso", "none")
PYday   == Post("q5", "yesterday", "iso", FirstDay - 1, Absent, "none")

\* the contents of the posts table: per category, newest first.  The first
\* table holds records that make renderers fail and an empty category, the
\* second only well-formed records.
Tables ==
  { [c \in BLOG_CONFIGS |->
       CASE c = "sneaker" -> <<PFresh, PBadPub>>
         [] c = "shoes" -> <<PBadPrc, PBadUpd>>
         [] c = "workwear" -> <<>>
         [] c = "music" -> <<PNaive>>],
    [c \in BLOG_CONFIGS |->
       CASE c = "sneaker" -> <<PNew, POld>>
         [] c = "shoes" -> <<PMid>>
         [] c = "workwear" -> <<PAged>>
         [] c = "music" -> <<PYday>>] }

\* post.get('slug', post.get('id'))
Slug(p) == IF p.slug = Absent THEN p.id ELSE p.slug

Ids(posts) == {posts[i].id : i \in 1..Len(posts)}

\* s[:n]
Take(s, n) == SubSeq(s, 1, IF Len(s) < n THEN Len(s) ELSE n)

\* posts[:20] in generate_index_page
IndexLimit == 20
\* fetch_posts(limit=50) in the HTML handler
HtmlLimit == 50
\* fetch_posts(limit=50) in the feed handler
FeedLimit == 50
\* fetch_posts(limit=50000) in the sitemap handler
SitemapLimit == 50000

(***************************************************************************)
(* Storage keys.  A key is the sequence of its path segments.              *)
(***************************************************************************)
HtmlIndexKey(c) == <<Path(c), "index.html">>
HtmlPostKey(c, p) == <<Path(c), Slug(p), "index.html">>
\* RssKey with a name that changes from one invocation to the next
RssKeyPerRun(c) == <<Path(c), IF run = 1 THEN "feed.xml" ELSE "feed-again.xml">>

RssKey(c) == <<Path(c), "feed.xml">>
AtomKey(c) == <<Path(c), "atom.xml">>
OpmlKey == <<"blog", "feeds.opml">>
SitemapKey(c) == <<Path(c), "sitemap.xml">>
NewsKey(c) == <<Path(c), "sitemap-news.xml">>
StaticKey == <<"sitemap-static.xml">>
IndexKey == <<"sitemap.xml">>
RobotsKey == <<"robots.txt">>

(***************************************************************************)
(* Renderers, as far as the handlers depend on them: whether they raise    *)
(* and which posts the document they return carries.                       *)
(***************************************************************************)
\* generate_full_html_page: the date parse is guarded ('Recently'); the
\* product card calls float() on the price strings unguarded
HtmlPostRaises(p) == p.price = "bad"

\* generate_rss / _add_item: datetime.fromisoformat(published_at) unguarded
RssRaises(posts) == \E i \in 1..Len(posts) : posts[i].pub.kind = "bad"

\* generate_atom / _add_atom_entry: published_at and updated_at unguarded
AtomRaises(posts) ==
  \E i \in 1..Len(posts) : posts[i].pub.kind = "bad" \/ posts[i].upd = "bad"

\* the first loop of generate_news_sitemap: a post is kept when its
\* published_at parses and is not before the cutoff; comparing a datetime
\* without offset to the cutoff raises inside the guarded block
NewsKeeps(p, cutoff) == p.pub.kind = "iso" /\ p.pub.day >= cutoff

\* NewsSitemap returning an empty document instead of none
NewsSitemapNeverNone(posts, day) ==
  IF DayOfMonth(day) - 2 < 1
    THEN [tag |-> "raise", posts |-> <<>>]
    ELSE [tag |-> "doc",
          posts |-> SelectSeq(posts, LAMBDA p : p.pub.kind = "iso"
                                                  /\ p.pub.day >= day - 2)]

\* generate_news_sitemap: cutoff.replace(day=cutoff.day - 2) raises
\* ValueError when the day of the month is 1 or 2
NewsSitemap(posts, day) ==
  IF DayOfMonth(day) - 2 < 1
    THEN [tag |-> "raise", posts |-> <<>>]
    ELSE LET recent == SelectSeq(posts, LAMBDA p : NewsKeeps(p, day - 2))
         IN IF recent = <<>>
              THEN [tag |-> "none", posts |-> <<>>]
              ELSE [tag |-> "doc", posts |-> recent]

NoNews == [tag |-> "n/a", posts |-> <<>>]

(***************************************************************************)
(* Storage reads.                                                          *)
(***************************************************************************)
\* the orders in which an unindexed scan may return the items of a category
ScanOrders(items) ==
  LET n == Len(items)
      perms == {f \in [1..n -> 1..n] : \A i, j \in 1..n : f[i] = f[j] => i = j}
  IN {[i \in 1..n |-> items[f[i]]] : f \in perms}

\* x.get('published_at', '') as a sort key: '' sorts first, a timestamp by
\* its day, a string that is no timestamp after every timestamp
PubKey(p) ==
  CASE p.pub.kind = Absent -> -1
    [] p.pub.kind = "bad" -> FirstDay + DaySpan + 1
    [] OTHER -> p.pub.day

\* items.sort(key=..., reverse=True): stable, descending
RECURSIVE SortDesc(_)
SortDesc(items) ==
  IF items = <<>> THEN <<>>
  ELSE LET n == Len(items)
           x == items[n]
           front == SortDesc(SubSeq(items, 1, n - 1))
           before == SelectSeq(front, LAMBDA y : PubKey(y) >= PubKey(x))
           after == SelectSeq(front, LAMBDA y : PubKey(y) < PubKey(x))
       IN before \o <<x>> \o after

\* table.get_item(Key={'id': post_id}): the item with that id, of any category
ItemsById(tbl, id) ==
  {p \in UNION {{tbl[c][i] : i \in 1..Len(tbl[c])} : c \in BLOG_CONFIGS} : p.id = id}

(***************************************************************************)
(* Invocation payloads.  envelope is "plain" for a direct payload, "path"  *)
(* for an API request carrying pathParameters, "sns" for a notification    *)
(* whose Message is the JSON payload and "sns_text" for a notification     *)
(* whose Message is not JSON.  category is the category the caller names   *)
(* (blog_type for the feed handler).                                       *)
(***************************************************************************)
Named == {Absent, Unknown} \cup BLOG_CONFIGS

Event(env, cat, all, idx, pid, ping, skip) ==
  [envelope |-> env, category |-> cat, generate_all |-> all,
   generate_index |-> idx, post_id |-> pid, ping_only |-> ping,
   skip_ping |-> skip]

TextEvent == Event("sns_text", Absent, FALSE, TRUE, Absent, FALSE, FALSE)

Plain(cat, all, idx, pid, skip) == Event("plain", cat, all, idx, pid, FALSE, skip)

Sns(cat) == Event("sns", cat, FALSE, TRUE, Absent, FALSE, FALSE)

HtmlEvents ==
  {TextEvent}
  \cup {Plain(cat, FALSE, idx, pid, FALSE) :
          cat \in Named, idx \in BOOLEAN, pid \in {Absent, "p1", "zz"}}
  \cup {Plain(Absent, TRUE, idx, pid, FALSE) :
          idx \in BOOLEAN, pid \in {Absent, "p1"}}
  \cup {Sns(cat) : cat \in {Absent, Unknown, "music"}}

RssEvents ==
  {TextEvent, Plain(Absent, FALSE, TRUE, Absent, FALSE)}
  \cup {Event("path", cat, FALSE, TRUE, Absent, FALSE, FALSE) : cat \in Named}
  \cup {Sns(cat) : cat \in Named}

SitemapEvents ==
  {TextEvent}
  \cup {Plain(cat, FALSE, TRUE, Absent, FALSE) : cat \in Named}
  \cup {Plain(cat, FALSE, TRUE, Absent, TRUE) : cat \in {Absent, "sneaker"}}
  \cup {Sns(cat) : cat \in {Unknown, "shoes"}}
  \cup {Event(env, Absent, FALSE, TRUE, Absent, TRUE, FALSE) :
          env \in {"plain", "sns"}}
  \cup {Event("plain", Absent, FALSE, TRUE, Absent, TRUE, TRUE)}

NotFetched == [how |-> "none", posts |-> <<>>, pages |-> <<>>]

Engines == {SEARCH_ENGINE_PINGS[i] : i \in 1..Len(SEARCH_ENGINE_PINGS)}

NoPings == [e \in Engines |-> "none"]

\* no renderer input, no renderer output
Nothing == [fn |-> "none"]

NoPrev ==
  [today |-> 0, fetched |-> [c \in BLOG_CONFIGS |-> NotFetched],
   attempted |-> {}, written |-> {}, store |-> {}]

ErrorEntry(kind, cat, id, why) ==
  [kind |-> kind, cat |-> cat, id |-> id, why |-> why]

\* nothing was invoked yet
Idle ==
  /\ table \in Tables
  /\ store = {}
  /\ run = 1
  /\ handler = "none"
  /\ event = TextEvent
  /\ today = 0
  /\ pc = "idle"
  /\ todo = <<>>
  /\ visited = <<>>
  /\ fetched = [c \in BLOG_CONFIGS |-> NotFetched]
  /\ news = [c \in BLOG_CONFIGS |-> NoNews]
  /\ attempted = {}
  /\ written = {}
  /\ rendered = {}
  /\ listed = {}
  /\ errors = {}
  /\ status = 0
  /\ indexed = <<>>
  /\ pings = NoPings
  /\ failed = FALSE
  /\ faults = 0
  /\ prev = NoPrev
  /\ scanned = {}

Init ==
  /\ Idle
  /\ arg = Nothing
  /\ out = Nothing

\* the per-invocation state of a handler that has just been entered
Fresh ==
  /\ visited' = <<>>
  /\ fetched' = [c \in BLOG_CONFIGS |-> NotFetched]
  /\ news' = [c \in BLOG_CONFIGS |-> NoNews]
  /\ attempted' = {}
  /\ written' = {}
  /\ rendered' = {}
  /\ listed' = {}
  /\ errors' = {}
  /\ indexed' = <<>>
  /\ failed' = FALSE
  /\ scanned' = {}

\* upload_to_s3 for the keys ks, of which those in ok succeed
Upload(ks, ok) ==
  /\ attempted' = attempted \cup ks
  /\ written' = written \cup ok
  /\ store' = store \cup ok

\* Listed with every key handed to upload_to_s3 listed
ListedAll(ks, ok) == ks

\* the keys a response lists among the keys ks handed to upload_to_s3: an
\* entry is appended inside `if upload_to_s3(...)` only
Listed(ks, ok) == ok

\* the environment may fail n more times
Within(n) == faults + n <= MaxFaults

Bit(b) == IF b THEN 1 ELSE 0

(***************************************************************************)
(* Entering a handler.                                                     *)
(***************************************************************************)
\* the categories the handler will loop over
Categories(h, ev) ==
  CASE h = "html" ->
         IF ev.generate_all THEN ConfigOrder
         ELSE <<IF ev.category = Absent THEN "sneaker" ELSE ev.category>>
    [] h = "rss" ->
         IF ev.envelope = "path" /\ ev.category \in BLOG_CONFIGS
           THEN <<ev.category>>
         ELSE IF ev.envelope = "sns" /\ ev.category # Absent
           THEN <<ev.category>>
         ELSE ConfigOrder
    [] h = "sitemap" ->
         IF ev.category # Absent THEN <<ev.category>> ELSE ConfigOrder

\* ping_search_engines giving up at the first engine that fails
PingResultsGiveUp ==
  {r \in [Engines -> {"ok", "fail", "none"}] :
     /\ Within(Cardinality({e \in Engines : r[e] = "fail"}))
     /\ \A j \in 1..Len(SEARCH_ENGINE_PINGS) :
          r[SEARCH_ENGINE_PINGS[j]] = "none"
            <=> \E i \in 1..(j - 1) : r[SEARCH_ENGINE_PINGS[i]] # "ok"}

\* ping_search_engines: every engine is tried; each try succeeds or fails
PingResults ==
  {r \in [Engines -> {"ok", "fail"}] :
     Within(Cardinality({e \in Engines : r[e] = "fail"}))}

PingFaults(r) == Cardinality({e \in Engines : r[e] = "fail"})

\* the head of lambda_handler, up to the loop over the categories:
\* json.loads of a notification message that is not JSON raises; a
\* ping_only request of the sitemap handler pings and returns
\* PingOnly with the ping_only key never looked at
PingOnlyIgnored(h, ev) == FALSE

\* `if event.get('ping_only'):` of the sitemap handler
PingOnly(h, ev) == h = "sitemap" /\ ev.ping_only

Begin(h, ev, d) ==
  /\ handler' = h
  /\ event' = ev
  /\ today' = d
  /\ Fresh
  /\ UNCHANGED <<table, store, arg, out>>
  /\ IF ev.envelope = "sns_text"
       THEN /\ pc' = "raised"
            /\ todo' = <<>>
            /\ status' = 0
            /\ pings' = NoPings
            /\ faults' = faults
     ELSE IF PingOnly(h, ev)
       THEN \E r \in PingResults :
              /\ pc' = "done"
              /\ todo' = <<>>
              /\ status' = 200
              /\ pings' = r
              /\ faults' = faults + PingFaults(r)
     ELSE /\ pc' = "loop"
          /\ todo' = Categories(h, ev)
          /\ status' = 0
          /\ pings' = NoPings
          /\ faults' = faults

HtmlInvoke ==
  /\ pc = "idle"
  /\ \E ev \in HtmlEvents : Begin("html", ev, 0)
  /\ UNCHANGED <<run, prev>>

RssInvoke ==
  /\ pc = "idle"
  /\ \E ev \in RssEvents : Begin("rss", ev, 0)
  /\ UNCHANGED <<run, prev>>

SitemapInvoke ==
  /\ pc = "idle"
  /\ \E ev \in SitemapEvents, d \in Days : Begin("sitemap", ev, d)
  /\ UNCHANGED <<run, prev>>

\* the same handler is invoked again with the same payload, the table
\* unchanged; the clock has not gone back
Rerun ==
  /\ pc = "done"
  /\ run < MaxRuns
  /\ run' = run + 1
  /\ prev' = [today |-> today, fetched |-> fetched,
              attempted |-> attempted, written |-> written, store |-> store]
  /\ \E d \in (IF handler = "sitemap" THEN {x \in Days : x >= today} ELSE {0}) :
       Begin(handler, event, d)

(***************************************************************************)
(* html_generator.lambda_handler: one iteration of the category loop.      *)
(***************************************************************************)
HtmlCategory ==
  /\ handler = "html" /\ pc = "loop" /\ todo # <<>>
  /\ LET c == Head(todo) IN
     /\ todo' = Tail(todo)
     /\ visited' = Append(visited, c)
     /\ UNCHANGED <<table, run, handler, event, today, pc, news, status,
                    indexed, pings, prev, scanned, arg, out>>
     /\ IF c \notin BLOG_CONFIGS
          THEN UNCHANGED <<store, fetched, attempted, written, rendered,
                           listed, errors, failed, faults>>
          ELSE \E how \in {"ok", "fail"}, got \in {"ok", "fail"} :
            LET listing == IF how = "ok" THEN Take(table[c], HtmlLimit) ELSE <<>>
                items == ItemsById(table, event.post_id)
                pages ==
                  IF event.post_id = Absent THEN listing
                  ELSE IF got = "ok" /\ items # {}
                    THEN <<CHOOSE p \in items : TRUE>>
                  ELSE <<>>
                bad == {i \in 1..Len(pages) : HtmlPostRaises(pages[i])}
                good == (1..Len(pages)) \ bad
                idx == IF event.generate_index THEN {HtmlIndexKey(c)} ELSE {}
                keys == idx \cup {HtmlPostKey(c, pages[i]) : i \in good}
            IN \E ok \in SUBSET keys :
                 LET n == Bit(how # "ok") + Bit(got # "ok")
                            + Cardinality(keys \ ok)
                 IN /\ Within(n)
                    /\ event.post_id = Absent => got = "ok"
                    /\ faults' = faults + n
                    /\ Upload(keys, ok)
                    /\ fetched' = [fetched EXCEPT ![c] =
                         [how |-> how, posts |-> listing, pages |-> pages]]
                    /\ rendered' = rendered
                         \cup {<<k, id>> : k \in idx,
                                 id \in Ids(Take(listing, IndexLimit))}
                         \cup {<<HtmlPostKey(c, pages[i]), pages[i].id>> :
                                 i \in good}
                    /\ listed' = listed \cup Listed(keys, ok)
                    /\ errors' = errors
                         \cup {ErrorEntry("post", Absent, pages[i].id, "render") :
                                 i \in bad}
                    /\ failed' = (failed \/ n > 0 \/ bad # {})

\* the handler returns: the status code is always 200
HtmlReturn ==
  /\ handler = "html" /\ pc = "loop" /\ todo = <<>>
  /\ pc' = "done"
  /\ status' = 200
  /\ UNCHANGED <<table, store, run, handler, event, today, todo, visited,
                 fetched, news, attempted, written, rendered, listed, errors,
                 indexed, pings, failed, faults, prev, scanned, arg, out>>

(***************************************************************************)
(* rss_handler.lambda_handler.                                             *)
(***************************************************************************)
\* what the storage hands back: the index query's items, or after a failed
\* query the items of a scan in some order
Reads(c, how) == IF how = "scan" THEN ScanOrders(table[c]) ELSE {table[c]}

\* RSSFeedGenerator.fetch_posts
RssFetch(items, how) ==
  IF how = "scan" THEN Take(SortDesc(items), FeedLimit)
  ELSE Take(items, FeedLimit)

\* the keys the loop body hands to upload_to_s3 for the posts it fetched:
\* none when there are no posts or generate_rss raises, feed.xml alone when
\* generate_atom raises
RssKeys(c, posts) ==
  IF posts = <<>> \/ RssRaises(posts) THEN {}
  ELSE IF AtomRaises(posts) THEN {RssKey(c)}
  ELSE {RssKey(c), AtomKey(c)}

\* RssError with nothing recorded for a blog without posts
RssErrorSilent(c, posts) ==
  IF posts # <<>> /\ AtomRaises(posts)
    THEN {ErrorEntry("blog", c, Absent, "render")}
    ELSE {}

\* the error the loop body records for the posts it fetched, if any
RssError(c, posts) ==
  IF posts = <<>> THEN {ErrorEntry("blog", c, Absent, "No posts found")}
  ELSE IF AtomRaises(posts) THEN {ErrorEntry("blog", c, Absent, "render")}
  ELSE {}

\* RssResume with the exception ending the loop
RssResumeAborts(rest, raised) == IF raised THEN <<>> ELSE rest

\* the except clause around the loop body: whether or not the body raised,
\* the loop goes on with the remaining blogs
RssResume(rest, raised) == rest

\* one iteration of the loop over blogs_to_process
RssCategory ==
  /\ handler = "rss" /\ pc = "loop" /\ todo # <<>>
  /\ LET c == Head(todo) IN
     /\ visited' = Append(visited, c)
     /\ UNCHANGED <<table, run, handler, event, today, pc, news, status,
                    indexed, pings, prev, arg, out>>
     /\ IF c \notin BLOG_CONFIGS
          THEN \* RSSFeedGenerator(blog_type) raises KeyError inside the try
               /\ todo' = RssResume(Tail(todo), TRUE)
               /\ errors' = errors \cup {ErrorEntry("blog", c, Absent, "KeyError")}
               /\ failed' = TRUE
               /\ UNCHANGED <<store, fetched, attempted, written, rendered,
                              listed, faults, scanned>>
          ELSE \E how \in {"ok", "scan", "fail"} :
                 /\ Within(Bit(how # "ok"))
                 /\ scanned' = IF how = "ok" THEN scanned ELSE scanned \cup {c}
                 /\ IF how = "fail"
                      THEN \* the query and the fallback scan both raise
                           /\ todo' = RssResume(Tail(todo), TRUE)
                           /\ errors' = errors
                                \cup {ErrorEntry("blog", c, Absent, "fetch")}
                           /\ failed' = TRUE
                           /\ faults' = faults + 1
                           /\ fetched' = [fetched EXCEPT ![c] =
                                [how |-> how, posts |-> <<>>, pages |-> <<>>]]
                           /\ UNCHANGED <<store, attempted, written, rendered,
                                          listed>>
                      ELSE \E items \in Reads(c, how) :
                        LET posts == RssFetch(items, how)
                            keys == RssKeys(c, posts)
                        IN \E ok \in SUBSET keys :
                             LET n == Bit(how # "ok") + Cardinality(keys \ ok)
                             IN /\ Within(n)
                                /\ todo' = RssResume(Tail(todo), AtomRaises(posts))
                                /\ faults' = faults + n
                                /\ Upload(keys, ok)
                                /\ fetched' = [fetched EXCEPT ![c] =
                                     [how |-> how, posts |-> posts,
                                      pages |-> posts]]
                                /\ rendered' = rendered
                                     \cup {<<k, id>> : k \in keys, id \in Ids(posts)}
                                /\ listed' = listed \cup Listed(keys, ok)
                                /\ errors' = errors \cup RssError(c, posts)
                                /\ failed' = (failed \/ n > 0
                                                \/ RssError(c, posts) # {})

\* status_code = 200 if not results['failed'] else 207
RssStatus(errs) == IF errs = {} THEN 200 ELSE 207

\* after the loop: the OPML file is uploaded and the handler returns
RssTail ==
  /\ handler = "rss" /\ pc = "loop" /\ todo = <<>>
  /\ \E ok \in SUBSET {OpmlKey} :
       LET n == Cardinality({OpmlKey} \ ok)
       IN /\ Within(n)
          /\ faults' = faults + n
          /\ Upload({OpmlKey}, ok)
          /\ listed' = listed \cup Listed({OpmlKey}, ok)
          /\ failed' = (failed \/ n > 0)
  /\ pc' = "done"
  /\ status' = RssStatus(errors)
  /\ UNCHANGED <<table, run, handler, event, today, todo, visited, fetched,
                 news, rendered, errors, indexed, pings, prev, scanned, arg,
                 out>>

(***************************************************************************)
(* sitemap_handler.lambda_handler.                                         *)
(***************************************************************************)
\* SitemapGenerator.fetch_posts
SitemapFetch(items) == Take(items, SitemapLimit)

\* the keys of a sequence of keys
Range(s) == {s[i] : i \in 1..Len(s)}

\* Kept with every key handed to upload_to_s3 counted as uploaded
KeptAll(ks, ok) == ks

\* the uploaded ones among ks, in the order of ks
Kept(ks, ok) == SelectSeq(ks, LAMBDA k : k \in ok)

\* the except clause around the loop body: whether or not the body raised,
\* the loop goes on with the remaining categories
SitemapResume(rest, raised) == rest

\* one iteration of the loop over categories
SitemapCategory ==
  /\ handler = "sitemap" /\ pc = "loop" /\ todo # <<>>
  /\ LET c == Head(todo) IN
     /\ visited' = Append(visited, c)
     /\ UNCHANGED <<table, run, handler, event, today, pc, status, pings, prev,
                    arg, out>>
     /\ IF c \notin BLOG_CONFIGS
          THEN /\ todo' = Tail(todo)
               /\ UNCHANGED <<store, fetched, news, attempted, written,
                              rendered, listed, errors, indexed, failed, faults,
                              scanned>>
          ELSE \E how \in {"ok", "scan", "fail"} :
                 /\ Within(Bit(how # "ok"))
                 /\ scanned' = IF how = "ok" THEN scanned ELSE scanned \cup {c}
                 /\ IF how = "fail"
                      THEN \* the query and the fallback scan both raise
                           /\ todo' = SitemapResume(Tail(todo), TRUE)
                           /\ errors' = errors
                                \cup {ErrorEntry("category", c, Absent, "fetch")}
                           /\ failed' = TRUE
                           /\ faults' = faults + 1
                           /\ fetched' = [fetched EXCEPT ![c] =
                                [how |-> how, posts |-> <<>>, pages |-> <<>>]]
                           /\ UNCHANGED <<store, news, attempted, written,
                                          rendered, listed, indexed>>
                      ELSE \E items \in Reads(c, how) :
                        LET posts == SitemapFetch(items)
                            nw == NewsSitemap(posts, today)
                            keys == IF nw.tag = "doc"
                                      THEN <<SitemapKey(c), NewsKey(c)>>
                                      ELSE <<SitemapKey(c)>>
                        IN \E ok \in SUBSET Range(keys) :
                             LET n == Bit(how # "ok")
                                        + Cardinality(Range(keys) \ ok)
                             IN /\ Within(n)
                                /\ todo' = SitemapResume(Tail(todo),
                                                         nw.tag = "raise")
                                /\ faults' = faults + n
                                /\ Upload(Range(keys), ok)
                                /\ fetched' = [fetched EXCEPT ![c] =
                                     [how |-> how, posts |-> posts,
                                      pages |-> posts]]
                                /\ news' = [news EXCEPT ![c] = nw]
                                /\ rendered' = rendered
                                     \cup {<<SitemapKey(c), id>> : id \in Ids(posts)}
                                     \cup {<<NewsKey(c), id>> : id \in Ids(nw.posts)}
                                /\ listed' = listed \cup Listed(Range(keys), ok)
                                /\ indexed' = indexed \o Kept(keys, ok)
                                /\ errors' = errors \cup
                                     (IF nw.tag = "raise"
                                        THEN {ErrorEntry("category", c, Absent, "news")}
                                        ELSE {})
                                /\ failed' = (failed \/ n > 0 \/ nw.tag = "raise")

\* after the loop: the static sitemap, the sitemap index (when a sitemap was
\* uploaded), robots.txt, the pings (when the index was uploaded and
\* skip_ping is not set); the status code is always 200
SitemapTail ==
  /\ handler = "sitemap" /\ pc = "loop" /\ todo = <<>>
  /\ \E okStatic, okIndex, okRobots \in BOOLEAN, r \in PingResults \cup {NoPings} :
       LET info == indexed \o (IF okStatic THEN <<StaticKey>> ELSE <<>>)
           keys == {StaticKey, RobotsKey}
                     \cup (IF info # <<>> THEN {IndexKey} ELSE {})
           ok == {k \in keys : \/ k = StaticKey /\ okStatic
                               \/ k = IndexKey /\ okIndex
                               \/ k = RobotsKey /\ okRobots}
           pinged == IndexKey \in ok /\ ~event.skip_ping
           n == Cardinality(keys \ ok) + PingFaults(r)
       IN /\ Within(n)
          /\ IndexKey \notin keys => okIndex
          /\ pinged <=> r # NoPings
          /\ faults' = faults + n
          /\ Upload(keys, ok)
          /\ listed' = listed \cup Listed(keys, ok)
          /\ indexed' = info
          /\ pings' = r
          /\ failed' = (failed \/ n > 0)
  /\ pc' = "done"
  /\ status' = 200
  /\ UNCHANGED <<table, run, handler, event, today, todo, visited, fetched,
                 news, rendered, errors, prev, scanned, arg, out>>

(***************************************************************************)
(* The specification.                                                      *)
(***************************************************************************)
Next ==
  \/ HtmlInvoke
  \/ RssInvoke
  \/ SitemapInvoke
  \/ Rerun
  \/ HtmlCategory
  \/ HtmlReturn
  \/ RssCategory
  \/ RssTail
  \/ SitemapCategory
  \/ SitemapTail

Spec == Init /\ [][Next]_vars

(***************************************************************************)
(* The renderers called on their own.  Instants are counted in hours; a    *)
(* timestamp is [kind, at]: kind "iso" for an ISO-8601 string with an      *)
(* offset, "naive" for one without, "bad" for a string fromisoformat       *)
(* rejects, Absent for a missing key.                                      *)
(***************************************************************************)
\* datetime.now(timezone.utc): 13:00 on day 400
Now == 400 * 24 + 13

Stamp(kind, at) == [kind |-> kind, at |-> at]

NoStamp == Stamp(Absent, 0)

BadStamp == Stamp("bad", 0)

\* an instant that lies d days and h hours before Now
Ago(kind, d, h) == Stamp(kind, Now - (d * 24 + h))

\* strftime('%Y-%m-%d') of an instant: its day
DateOf(at) == at \div 24

\* the stored value of tags or keywords: a list of strings, a string, or a
\* missing key; a string is the sequence of its characters
TagList(items) == [kind |-> "list", items |-> items]

TagText(text) == [kind |-> "str", text |-> text]

NoTags == [kind |-> Absent]

\* the content field: the number of words content.split() finds in it
Content(words) == [kind |-> "text", words |-> words]

NoContent == [kind |-> Absent, words |-> 0]

\* a post record as the renderers read it; it has no description, no
\* tags, no keywords and no content unless they are put in
Article(id, title, pub, upd, fimg, img, products) ==
  [id |-> id, title |-> title, pub |-> pub, upd |-> upd,
   featured_image |-> fimg, image_url |-> img, products |-> products,
   meta_description |-> Absent, excerpt |-> Absent, tags |-> NoTags,
   keywords |-> NoTags, content |-> NoContent]

\* a record with a title and a publish time, nothing else
Plainly(id, pub) == Article(id, "Hello", pub, NoStamp, Absent, Absent, <<>>)

\* post.get(key, default) for a key that holds v or is absent
Get(v, default) == IF v = Absent THEN default ELSE v

\* BLOG_CONFIGS[category]['changefreq'] of the sitemap handler
ConfigChangefreq(c) == IF c \in {"sneaker", "shoes"} THEN "daily" ELSE "weekly"

\* BLOG_CONFIGS[category]['priority'] of the sitemap handler
ConfigPriority(c) == IF c \in {"sneaker", "shoes"} THEN "0.8" ELSE "0.7"

\* (datetime.now(timezone.utc) - pub_dt).days
DaysOld(at) == (Now - at) \div 24

\* ChangeFreq with the week counted up to and including its seventh day
ChangeFreqLate(c, pub) ==
  IF pub.kind = "iso"
    THEN IF DaysOld(pub.at) <= 7 THEN "daily"
         ELSE IF DaysOld(pub.at) < 30 THEN "weekly"
         ELSE IF DaysOld(pub.at) < 180 THEN "monthly"
         ELSE "yearly"
    ELSE ConfigChangefreq(c)

\* generate_sitemap, change frequency of a post: from its age when
\* published_at parses and can be subtracted from the aware now; a missing
\* key, a string that does not parse (ValueError) and a timestamp without
\* offset (TypeError on the subtraction) give the category's default
ChangeFreq(c, pub) ==
  IF pub.kind = "iso"
    THEN IF DaysOld(pub.at) < 7 THEN "daily"
         ELSE IF DaysOld(pub.at) < 30 THEN "weekly"
         ELSE IF DaysOld(pub.at) < 180 THEN "monthly"
         ELSE "yearly"
    ELSE ConfigChangefreq(c)

\* generate_sitemap, lastmod of a post: updated_at, else published_at;
\* today when the key is missing or the string does not parse
LastMod(p) ==
  LET raw == IF p.upd.kind # Absent THEN p.upd ELSE p.pub
  IN IF raw.kind \in {"iso", "naive"} THEN DateOf(raw.at) ELSE DateOf(Now)

\* generate_sitemap, the url element of a post
SitemapUrl(c, p) ==
  [loc |-> <<Path(c), p.id>>, lastmod |-> LastMod(p),
   changefreq |-> ChangeFreq(c, p.pub), priority |-> ConfigPriority(c),
   post |-> p.id]

\* generate_sitemap, the url element of the category index page
SitemapIndexUrl(c) ==
  [loc |-> <<Path(c)>>, lastmod |-> DateOf(Now), changefreq |-> "daily",
   priority |-> "1.0", post |-> Absent]

\* generate_sitemap: the index entry, then one entry per post
generate_sitemap(c, posts) ==
  [fn |-> "generate_sitemap", tag |-> "doc",
   elems |-> <<SitemapIndexUrl(c)>>
               \o [i \in 1..Len(posts) |-> SitemapUrl(c, posts[i])]]

(***************************************************************************)
(* Tags, as the renderers read them.                                       *)
(***************************************************************************)
\* str.join
RECURSIVE Join(_, _)
Join(items, sep) ==
  IF items = <<>> THEN <<>>
  ELSE IF Len(items) = 1 THEN items[1]
  ELSE items[1] \o sep \o Join(Tail(items), sep)

\* json.dumps of a list of strings
Dumps(items) ==
  <<"[">>
    \o Join([i \in 1..Len(items) |-> <<"\"">> \o items[i] \o <<"\"">>],
             <<",", " ">>)
    \o <<"]">>

Af1 == <<"a", "f", "1">>

Sb == <<"s", "b">>

\* the lists of tags a post is stored with
TagLists == {<<>>, <<Af1>>, <<Af1, Sb>>}

\* json.loads of a text: the list the text serializes, ValueError for a
\* text that is no JSON
Loads(text) ==
  IF \E items \in TagLists : Dumps(items) = text
    THEN [tag |-> "tags",
          items |-> CHOOSE items \in TagLists : Dumps(items) = text]
    ELSE [tag |-> "raise"]

\* _add_item and _add_atom_entry: a string that starts with '[' is parsed,
\* any other string is one tag, a list is taken as it is
FeedTags(v) ==
  IF v.kind = Absent THEN [tag |-> "tags", items |-> <<>>]
  ELSE IF v.kind = "list" THEN [tag |-> "tags", items |-> v.items]
  ELSE IF v.text # <<>> /\ v.text[1] = "[" THEN Loads(v.text)
  ELSE [tag |-> "tags", items |-> <<v.text>>]

\* generate_article_html: `for tag in tags[:5]` over the stored value, so a
\* string gives its first five characters
ArticleTags(v) ==
  IF v.kind = Absent THEN <<>>
  ELSE IF v.kind = "list" THEN Take(v.items, 5)
  ELSE Take([i \in 1..Len(v.text) |-> <<v.text[i]>>], 5)

\* generate_news_sitemap, the keywords element: post.get('keywords',
\* post.get('tags', [])); the first ten items of a list joined by ', ', a
\* string as it is, no element (the empty text here) for an empty value
NewsKeywords(p) ==
  LET v == IF p.keywords.kind # Absent THEN p.keywords ELSE p.tags
  IN IF v.kind = Absent THEN <<>>
     ELSE IF v.kind = "list" THEN Join(Take(v.items, 10), <<",", " ">>)
     ELSE v.text

(***************************************************************************)
(* rss_handler: the RSS item and the Atom entry of a post.                 *)
(***************************************************************************)
Raised == [tag |-> "raise"]

\* post.get('featured_image', post.get('image_url')): the first key present
FeaturedImage(p) == Get(p.featured_image, p.image_url)

\* the truth value Python gives a string or None
Truthy(v) == v # Absent /\ v # ""

\* the url an element carries, Absent when the element is not emitted
UrlIf(present, url) == IF present THEN url ELSE Absent

\* post.get('published_at', post.get('created_at', now)) parsed with
\* fromisoformat: a missing key gives now, a bad string raises ValueError
FeedDate(pub) ==
  CASE pub.kind = Absent -> [tag |-> "at", at |-> Now]
    [] pub.kind = "bad" -> Raised
    [] OTHER -> [tag |-> "at", at |-> pub.at]

\* the description of an RSS item and the summary of an Atom entry:
\* post.get('excerpt', post.get('meta_description', ''))
FeedDescription(p) == Get(p.excerpt, Get(p.meta_description, ""))

\* _add_item with the Media-RSS element left out
RssItemNoMedia(p) ==
  LET when == FeedDate(p.pub)
      tags == FeedTags(p.tags)
      image == FeaturedImage(p)
  IN IF when.tag = "raise" \/ tags.tag = "raise" THEN Raised
     ELSE [tag |-> "item", post |-> p.id,
           title |-> Get(p.title, "Untitled"),
           description |-> FeedDescription(p),
           date |-> when.at,
           categories |-> tags.items,
           enclosure |-> UrlIf(Truthy(image), image),
           media |-> Absent]

\* RSSFeedGenerator._add_item
RssItem(p) ==
  LET when == FeedDate(p.pub)
      tags == FeedTags(p.tags)
      image == FeaturedImage(p)
  IN IF when.tag = "raise" \/ tags.tag = "raise" THEN Raised
     ELSE [tag |-> "item", post |-> p.id,
           title |-> Get(p.title, "Untitled"),
           description |-> FeedDescription(p),
           date |-> when.at,
           categories |-> tags.items,
           enclosure |-> UrlIf(Truthy(image), image),
           media |-> UrlIf(Truthy(image), image)]

\* RSSFeedGenerator._add_atom_entry: updated_at, when present, is parsed too
AtomEntry(p) ==
  LET when == FeedDate(p.pub)
      tags == FeedTags(p.tags)
      image == FeaturedImage(p)
  IN IF when.tag = "raise" \/ p.upd.kind = "bad" \/ tags.tag = "raise"
       THEN Raised
     ELSE [tag |-> "entry", post |-> p.id,
           title |-> Get(p.title, "Untitled"),
           date |-> when.at,
           updated |-> IF p.upd.kind = Absent THEN when.at ELSE p.upd.at,
           summary |-> FeedDescription(p),
           categories |-> tags.items,
           media |-> UrlIf(Truthy(image), image)]

\* a document made of one element per post; an element that raises leaves
\* no document
Document(fn, elems) ==
  IF \E i \in 1..Len(elems) : elems[i].tag = "raise"
    THEN [fn |-> fn, tag |-> "raise", elems |-> <<>>]
    ELSE [fn |-> fn, tag |-> "doc", elems |-> elems]

\* RSSFeedGenerator.generate_rss
generate_rss(posts) ==
  Document("generate_rss", [i \in 1..Len(posts) |-> RssItem(posts[i])])

\* RSSFeedGenerator.generate_atom
generate_atom(posts) ==
  Document("generate_atom", [i \in 1..Len(posts) |-> AtomEntry(posts[i])])

\* generate_news_sitemap, the url element of a kept post
NewsUrl(p) ==
  [tag |-> "url", post |-> p.id, date |-> p.pub.at,
   title |-> Get(p.title, "Untitled"), keywords |-> NewsKeywords(p)]

\* SitemapGenerator.generate_news_sitemap over the records of the renderers:
\* the posts published since midnight two days ago, none when there is no
\* such post; cutoff.replace(day=cutoff.day - 2) raises on the first two
\* days of a month
generate_news_sitemap(posts) ==
  LET cutoff == (DateOf(Now) - 2) * 24
      recent == SelectSeq(posts, LAMBDA p : /\ p.pub.kind = "iso"
                                            /\ p.pub.at >= cutoff)
  IN IF DayOfMonth(DateOf(Now)) - 2 < 1
       THEN [fn |-> "generate_news_sitemap", tag |-> "raise", elems |-> <<>>]
     ELSE IF recent = <<>>
       THEN [fn |-> "generate_news_sitemap", tag |-> "none", elems |-> <<>>]
     ELSE [fn |-> "generate_news_sitemap", tag |-> "doc",
           elems |-> [i \in 1..Len(recent) |-> NewsUrl(recent[i])]]

(***************************************************************************)
(* html_generator: the product card, the post page and the index card.    *)
(* A link is the sequence of its pieces, so that `x in link` is the        *)
(* presence of the piece x.  A number field is [kind, n]: kind "none" for  *)
(* a missing or empty value, "num" for a numeric string (n in cents for a  *)
(* price, in tenths for a rating), "bad" for a string float() rejects.     *)
(***************************************************************************)
AFFILIATE_TAG == "shoeswiper-20"

Has(link, piece) == \E i \in 1..Len(link) : link[i] = piece

Num(kind, n) == [kind |-> kind, n |-> n]

NoNum == Num("none", 0)

BadNum == Num("bad", 0)

\* a product record; asin Absent and link <<>> stand for missing keys
Product(asin, link, price, original, rating) ==
  [asin |-> asin, link |-> link, price |-> price, original |-> original,
   rating |-> rating]

\* AffiliateLink with the tag appended to every amazon.com link
AffiliateLinkAlways(product) ==
  IF Truthy(product.asin)
    THEN <<"https://", "www.", "amazon.com", "/dp/", product.asin, "?",
           "tag=", AFFILIATE_TAG>>
    ELSE LET link == IF product.link = <<>> THEN <<"#">> ELSE product.link
         IN IF Has(link, "amazon.com")
              THEN link \o <<IF Has(link, "?") THEN "&" ELSE "?", "tag=",
                             AFFILIATE_TAG>>
              ELSE link

\* generate_affiliate_product_html, the purchase link
AffiliateLink(product) ==
  IF Truthy(product.asin)
    THEN <<"https://", "www.", "amazon.com", "/dp/", product.asin, "?",
           "tag=", AFFILIATE_TAG>>
    ELSE LET link == IF product.link = <<>> THEN <<"#">> ELSE product.link
         IN IF Has(link, "amazon.com") /\ ~Has(link, AFFILIATE_TAG)
              THEN link \o <<IF Has(link, "?") THEN "&" ELSE "?", "tag=",
                             AFFILIATE_TAG>>
              ELSE link

\* float(original_price) > float(price) is evaluated when both are given;
\* it raises ValueError when either is not numeric
PriceRaises(product) ==
  /\ product.price.kind # "none" /\ product.original.kind # "none"
  /\ "bad" \in {product.price.kind, product.original.kind}

\* int(float(rating)) is evaluated when a rating is given
RatingRaises(product) == product.rating.kind = "bad"

\* n copies of a character; none for a negative n, as Python's str * int
Times(ch, n) == [i \in 1..n |-> ch]

\* the stars of a rating given in tenths: int(float(rating)) filled ones,
\* then 5 - int(float(rating)) empty ones
Stars(tenths) ==
  Times("filled", tenths \div 10) \o Times("empty", 5 - tenths \div 10)

\* generate_affiliate_product_html
ProductCard(product) ==
  IF PriceRaises(product) \/ RatingRaises(product) THEN Raised
  ELSE LET reduced == /\ product.price.kind = "num"
                      /\ product.original.kind = "num"
                      /\ product.original.n > product.price.n
       IN [tag |-> "card",
           link |-> AffiliateLink(product),
           price |-> IF product.price.kind = "none" THEN "none" ELSE "shown",
           priceIs |-> product.price.kind,
           discount |-> IF reduced
                          THEN ((product.original.n - product.price.n) * 100)
                                  \div product.original.n
                          ELSE -1,
           rating |-> IF product.rating.kind = "none" THEN "none" ELSE "shown",
           stars |-> IF product.rating.kind = "num"
                       THEN Stars(product.rating.n) ELSE <<>>]

\* escape_html: '' for a missing or empty text, html.escape otherwise
Escape(text) ==
  CASE ~Truthy(text) -> ""
    [] text = "A&B" -> "A&amp;B"
    [] OTHER -> text

Shown(text, day) == [text |-> text, day |-> day]

\* the date generate_article_html shows: a missing key gives now, a string
\* that does not parse the literal
ArticleDate(pub) ==
  CASE pub.kind = Absent -> Shown("date", DateOf(Now))
    [] pub.kind = "bad" -> Shown("Recently", 0)
    [] OTHER -> Shown("date", DateOf(pub.at))

\* the date generate_index_page shows: a missing key gives '', which does
\* not parse
CardDate(pub) ==
  IF pub.kind \in {"iso", "naive"} THEN Shown("date", DateOf(pub.at))
  ELSE Shown("Recently", 0)

\* generate_meta_tags, the description: post.get('meta_description',
\* post.get('excerpt', '')), escaped and cut to 160 characters, which the
\* texts here do not reach
MetaDescription(p) == Escape(Get(p.meta_description, Get(p.excerpt, "")))

\* the larger of two numbers
Max(a, b) == IF a > b THEN a ELSE b

\* generate_article_html, the minutes of the reading time; a post without
\* content has no words
ReadingTime(content) == Max(1, content.words \div 200)

\* generate_full_html_page: generate_meta_tags and generate_article_html
\* with the cards of the first six products
generate_full_html_page(p) ==
  LET cards == [i \in 1..Len(Take(p.products, 6)) |-> ProductCard(p.products[i])]
  IN IF \E i \in 1..Len(cards) : cards[i].tag = "raise"
       THEN [fn |-> "generate_full_html_page", tag |-> "raise"]
       ELSE [fn |-> "generate_full_html_page", tag |-> "page", post |-> p.id,
             docTitle |-> Escape(Get(p.title, "ShoeSwiper Blog")),
             metaTitle |-> Escape(Get(p.title, "ShoeSwiper Blog")),
             description |-> MetaDescription(p),
             h1 |-> Escape(Get(p.title, "Untitled")),
             date |-> ArticleDate(p.pub),
             reading |-> ReadingTime(p.content),
             tags |-> ArticleTags(p.tags),
             cards |-> cards]

\* generate_index_page, the card of a post
IndexCard(p) ==
  [tag |-> "card", post |-> p.id, title |-> Escape(Get(p.title, "Untitled")),
   date |-> CardDate(p.pub)]

\* generate_index_page: one card for each of the first twenty posts
generate_index_page(posts) ==
  Document("generate_index_page",
           [i \in 1..Len(Take(posts, IndexLimit)) |-> IndexCard(posts[i])])

(***************************************************************************)
(* index.py: the content generator.  The reply of the text collaborator is *)
(* [shape, keys]: shape "prose" for a text without braces, "braces" for a  *)
(* text whose braces do not hold valid JSON, "object" for a JSON object    *)
(* with the keys named.  A topic is the sequence of its words.             *)
(***************************************************************************)
Reply(shape, keys, words) ==
  [shape |-> shape, keys |-> keys, words |-> words]

\* the keys lambda_handler and create_html_page subscript
Required == {"title", "slug", "meta_description"}

\* str.lower of a word
Lower(w) ==
  CASE w = "Best" -> "best"
    [] w = "Nike" -> "nike"
    [] w = "Dunks" -> "dunks"
    [] OTHER -> w

\* topic.lower().replace(' ', '-')
Slugify(topic) == [i \in 1..Len(topic) |-> Lower(topic[i])]

\* generate_content: the regular expression finds no braces and ValueError
\* is raised, which `except json.JSONDecodeError` does not catch; braces
\* that are not JSON give the record made from the topic; a JSON object is
\* returned as it is.  words is the number of words of the record's content:
\* the reply's text in the record made from the topic
generate_content(reply, topic) ==
  CASE reply.shape = "prose" -> [tag |-> "raise", from |-> "none", keys |-> {},
                                 slug |-> <<>>, words |-> 0]
    [] reply.shape = "braces" ->
         [tag |-> "data", from |-> "topic",
          keys |-> Required \cup {"keywords", "content", "products"},
          slug |-> Slugify(topic), words |-> reply.words]
    [] OTHER -> [tag |-> "data", from |-> "reply", keys |-> reply.keys,
                 slug |-> IF "slug" \in reply.keys THEN <<"from-reply">>
                          ELSE <<>>,
                 words |-> IF "content" \in reply.keys THEN reply.words
                           ELSE 0]

\* create_html_page, the minutes of the reading time:
\* len(content.split()) // 200
PageReadingTime(data) == data.words \div 200

\* the response of the content handler, with the reading time shown on the
\* page it made
Answer(code, from, key, saved, reading) ==
  [fn |-> "lambda_handler", status |-> code, from |-> from,
   published |-> key, saved |-> saved, reading |-> reading]

\* index.lambda_handler: 400 for an unknown blog type; any exception of
\* generate_content, of a missing key, of publish_to_s3 or of save_metadata
\* gives 500
ContentHandler(blog_type, topic, reply, put, save) ==
  IF blog_type \notin BLOG_CONFIGS THEN Answer(400, "none", <<>>, FALSE, -1)
  ELSE LET data == generate_content(reply, topic)
           key == <<"posts">> \o data.slug \o <<"index.html">>
           reading == PageReadingTime(data)
       IN IF data.tag = "raise" \/ ~(Required \subseteq data.keys)
            THEN Answer(500, data.from, <<>>, FALSE, -1)
          ELSE IF ~put THEN Answer(500, data.from, <<>>, FALSE, -1)
          ELSE IF ~save THEN Answer(500, data.from, key, FALSE, reading)
          ELSE Answer(200, data.from, key, TRUE, reading)

(***************************************************************************)
(* The inputs the renderers are called with.                               *)
(***************************************************************************)
\* posts per document
MaxPosts == 2

\* ages, <<days, hours>>, around every threshold of the change frequency
Ages ==
  {<<-1, 0>>, <<0, 1>>, <<1, 0>>, <<6, 23>>, <<7, 0>>, <<10, 0>>, <<29, 23>>,
   <<30, 0>>, <<40, 0>>, <<179, 23>>, <<180, 0>>, <<200, 0>>}

\* the id of the post aged a
AgeId(a) == <<"aged", a[1], a[2]>>

Links ==
  { <<>>,
    <<"https://", "amazon.com", "/dp/B000X", "?", "ref=abc">>,
    <<"https://", "amazon.com", "/dp/B000X">>,
    <<"https://", "www.", "amazon.com", "/dp/B000X", "?", "tag=", AFFILIATE_TAG>>,
    <<"https://", "amazon.com", "/dp/B000X", "?", "ref=abc", "&", "tag=", "other-21">>,
    <<"https://", "example.com", "/shoe">>,
    <<"https://", "example.com", "/shoe", "?", "x=1">>,
    <<"https://", "example.com", "/go", "?", "to=", "amazon.com">> }

Products ==
  {Product(asin, link, price, original, rating) :
     asin \in {Absent, "B000X"}, link \in Links,
     price \in {NoNum, Num("num", 4999), Num("num", 9000), BadNum},
     original \in {NoNum, Num("num", 7999), BadNum},
     rating \in {NoNum, Num("num", 45), Num("num", 46), Num("num", 70),
                 BadNum}}

GoodProduct ==
  Product("B000X", <<>>, Num("num", 4999), Num("num", 7999), Num("num", 45))

\* a plain record published a day ago
Recent(id) == Plainly(id, Ago("iso", 1, 0))

\* records that differ in one respect from a plain one
Oddities ==
  { Plainly(<<"naive">>, Ago("naive", 40, 0)),
    Plainly(<<"bad-pub">>, BadStamp),
    Plainly(<<"no-pub">>, NoStamp),
    Article(<<"upd">>, "Hello", Ago("iso", 10, 0), Ago("iso", 2, 0),
            Absent, Absent, <<>>),
    Article(<<"bad-upd">>, "Hello", Ago("iso", 10, 0), BadStamp,
            Absent, Absent, <<>>),
    Article(<<"bad-pub-upd">>, "Hello", BadStamp, Ago("iso", 3, 0),
            Absent, Absent, <<>>),
    Article(<<"no-title">>, Absent, Ago("iso", 1, 0), NoStamp,
            Absent, Absent, <<>>),
    Article(<<"empty-title">>, "", Ago("iso", 1, 0), NoStamp,
            Absent, Absent, <<>>),
    Article(<<"amp-title">>, "A&B", Ago("iso", 1, 0), NoStamp,
            Absent, Absent, <<>>),
    Article(<<"featured">>, "Hello", Ago("iso", 1, 0), NoStamp,
            "a.png", Absent, <<>>),
    Article(<<"image">>, "Hello", Ago("iso", 1, 0), NoStamp,
            Absent, "b.jpg", <<>>),
    Article(<<"both-images">>, "Hello", Ago("iso", 1, 0), NoStamp,
            "a.png", "b.jpg", <<>>),
    Article(<<"empty-featured">>, "Hello", Ago("iso", 1, 0), NoStamp,
            "", "b.jpg", <<>>),
    Article(<<"image-bad-pub">>, "Hello", BadStamp, NoStamp,
            "a.png", Absent, <<>>),
    [Recent(<<"meta">>) EXCEPT !.meta_description = "meta text"],
    [Recent(<<"excerpt">>) EXCEPT !.excerpt = "excerpt text"],
    [Recent(<<"meta-excerpt">>) EXCEPT !.meta_description = "meta text",
                                      !.excerpt = "excerpt text"],
    [Recent(<<"tag-list">>) EXCEPT !.tags = TagList(<<Af1, Sb>>)],
    [Recent(<<"tag-plain">>) EXCEPT !.tags = TagText(Af1)],
    [Recent(<<"tag-serial">>) EXCEPT !.tags = TagText(Dumps(<<Af1, Sb>>))],
    [Recent(<<"tag-broken">>) EXCEPT !.tags = TagText(<<"[", "a">>)],
    [Recent(<<"keywords">>) EXCEPT !.tags = TagList(<<Af1>>),
                                  !.keywords = TagList(<<Sb>>)],
    [Recent(<<"short">>) EXCEPT !.content = Content(150)],
    [Recent(<<"one-minute">>) EXCEPT !.content = Content(200)],
    [Recent(<<"long">>) EXCEPT !.content = Content(450)] }

\* records with one product
Selling ==
  {Article(<<"selling", pr.price.kind, pr.original.kind, pr.rating>>,
           "Hello", Ago("iso", 1, 0), NoStamp, Absent, Absent,
           <<GoodProduct, pr>>) :
     pr \in {q \in Products : q.asin = Absent /\ q.link = <<>>}}

Articles ==
  {Plainly(AgeId(a), Ago("iso", a[1], a[2])) : a \in Ages} \cup Oddities

\* the records documents of several posts are made of
DocPool ==
  {p \in Articles :
     p.id \in {AgeId(<<1, 0>>), AgeId(<<40, 0>>), <<"bad-pub">>, <<"bad-upd">>,
               <<"featured">>, <<"no-title">>}}

\* the sequences without repetition of at most n elements of S
SeqsUpTo(S, n) ==
  UNION {{q \in [1..k -> S] : \A i, j \in 1..k : q[i] = q[j] => i = j} :
           k \in 0..n}

\* the lists of posts a document renderer is called with
PostLists == SeqsUpTo(DocPool, MaxPosts) \cup {<<p>> : p \in Articles}

Topics == {<<"Best", "Nike", "Dunks">>, <<"boots">>}

\* the numbers of words a content holds
WordCounts == {150, 450}

Replies ==
  {Reply(shape, {}, n) : shape \in {"prose", "braces"}, n \in WordCounts}
    \cup {Reply("object", ks \cup {"content"}, n) :
            ks \in SUBSET Required, n \in WordCounts}

RenderInputs ==
  {[fn |-> "generate_sitemap", cat |-> c, posts |-> ps] :
     c \in {"sneaker", "music"}, ps \in PostLists}
  \cup {[fn |-> f, posts |-> ps] :
          f \in {"generate_rss", "generate_atom", "generate_index_page",
                 "generate_news_sitemap"},
          ps \in PostLists}
  \cup {[fn |-> "generate_full_html_page", post |-> p] :
          p \in Articles \cup Selling}
  \cup {[fn |-> "generate_affiliate_product_html", product |-> pr] :
          pr \in Products}
  \cup {[fn |-> "lambda_handler", blog_type |-> b, topic |-> t, reply |-> r,
         put |-> put, save |-> save] :
          b \in {"sneaker", Unknown}, t \in Topics, r \in Replies,
          put \in BOOLEAN, save \in BOOLEAN}

(***************************************************************************)
(* Calling a renderer: one action per function.                            *)
(***************************************************************************)
RenderInit ==
  /\ Idle
  /\ arg \in RenderInputs
  /\ out = Nothing

\* the function named fn is called with arg and hands back result
Call(fn, result) ==
  /\ arg.fn = fn
  /\ out = Nothing
  /\ out' = result
  /\ UNCHANGED <<hvars, arg>>

RenderSitemap ==
  arg.fn = "generate_sitemap"
    /\ Call("generate_sitemap", generate_sitemap(arg.cat, arg.posts))

RenderNews ==
  arg.fn = "generate_news_sitemap"
    /\ Call("generate_news_sitemap", generate_news_sitemap(arg.posts))

RenderRss ==
  arg.fn = "generate_rss" /\ Call("generate_rss", generate_rss(arg.posts))

RenderAtom ==
  arg.fn = "generate_atom" /\ Call("generate_atom", generate_atom(arg.posts))

RenderIndexPage ==
  arg.fn = "generate_index_page"
    /\ Call("generate_index_page", generate_index_page(arg.posts))

RenderPostPage ==
  arg.fn = "generate_full_html_page"
    /\ Call("generate_full_html_page", generate_full_html_page(arg.post))

RenderProduct ==
  arg.fn = "generate_affiliate_product_html"
    /\ Call("generate_affiliate_product_html",
            [fn |-> "generate_affiliate_product_html",
             card |-> ProductCard(arg.product)])

GenerateAndPublish ==
  arg.fn = "lambda_handler"
    /\ Call("lambda_handler",
            ContentHandler(arg.blog_type, arg.topic, arg.reply, arg.put,
                           arg.save))

RenderNext ==
  \/ RenderSitemap
  \/ RenderNews
  \/ RenderRss
  \/ RenderAtom
  \/ RenderIndexPage
  \/ RenderPostPage
  \/ RenderProduct
  \/ GenerateAndPublish

Render == RenderInit /\ [][RenderNext]_vars

(***************************************************************************)
(* SitemapGenerator.fetch_posts, query by query.  The storage is the       *)
(* sequence of its pages; a page holds items and the cursor it is returned *)
(* with: the number of the page that follows, 0 for no LastEvaluatedKey.   *)
(* A cursor that leads back stands for a storage that never stops          *)
(* returning one.  arg is the call, out the frame of the running call.     *)
(***************************************************************************)
\* pages of the storage
MaxPages == 3

\* the largest limit fetch_posts is called with
MaxLimit == 4

\* queries of one call that are followed
MaxQueries == MaxPages + MaxLimit

Page(items, next) == [items |-> items, next |-> next]

\* the items of page i: n items that name their page
PageItems(i, n) == [j \in 1..n |-> <<"item", i, j>>]

\* the storages: up to MaxPages pages of up to two items, each page but the
\* last returned with the cursor of the next one; the last page comes
\* without a cursor or with a cursor that leads back to it
Storages ==
  UNION {{[i \in 1..k |->
             Page(PageItems(i, size[i]), IF i < k THEN i + 1 ELSE last)] :
            size \in [1..k -> 0..2], last \in {0, k}} :
           k \in 1..MaxPages}

\* what table.scan hands back
ScanItems == <<<<"scan", 1>>, <<"scan", 2>>, <<"scan", 3>>>>

\* a call of fetch_posts: the storage, the limit, the query that raises (0
\* for none) and whether the scan of the except clause raises too
FetchInputs ==
  {[fn |-> "fetch_posts", storage |-> s, limit |-> l, fails |-> f,
    scan |-> sc] :
     s \in Storages, l \in 1..MaxLimit, f \in 0..MaxPages,
     sc \in {"ok", "raise"}}

\* the frame of fetch_posts: posts = [], last_key = None; asked lists the
\* pages queried so far
FetchInit ==
  /\ Idle
  /\ arg \in FetchInputs
  /\ out = [fn |-> "fetch_posts", pc |-> "loop", posts |-> <<>>,
            last_key |-> 0, asked |-> <<>>, how |-> "query"]

Fetching == arg.fn = "fetch_posts" /\ out.pc = "loop"

\* table.query raises in this round
QueryRaises == arg.fails = Len(out.asked) + 1

\* the loop with the limit left out of its exit test
GoesOnUnlimited(last_key, posts, limit) == last_key # 0

\* `if not last_key or len(posts) >= limit: break`, negated
GoesOn(last_key, posts, limit) == last_key # 0 /\ Len(posts) < limit

\* one round of the loop: the query answers, its items are appended and
\* its cursor is kept
FetchPage ==
  /\ Fetching /\ ~QueryRaises
  /\ Len(out.asked) < MaxQueries
  /\ LET at == IF out.last_key = 0 THEN 1 ELSE out.last_key
         page == arg.storage[at]
         posts == out.posts \o page.items
     IN out' = [out EXCEPT !.posts = posts,
                           !.last_key = page.next,
                           !.asked = Append(out.asked, at),
                           !.pc = IF GoesOn(page.next, posts, arg.limit)
                                    THEN "loop" ELSE "return"]
  /\ UNCHANGED <<hvars, arg>>

\* the query raises: posts is replaced by what the scan hands back
FetchFallback ==
  /\ Fetching /\ QueryRaises /\ arg.scan = "ok"
  /\ out' = [out EXCEPT !.posts = ScanItems, !.how = "scan",
                        !.pc = "return"]
  /\ UNCHANGED <<hvars, arg>>

\* the query raises and the scan in the except clause raises as well
FetchScanRaises ==
  /\ Fetching /\ QueryRaises /\ arg.scan = "raise"
  /\ out' = [out EXCEPT !.how = "scan", !.pc = "raised"]
  /\ UNCHANGED <<hvars, arg>>

\* return posts[:limit]
FetchReturn ==
  /\ arg.fn = "fetch_posts" /\ out.pc = "return"
  /\ out' = [out EXCEPT !.posts = Take(out.posts, arg.limit), !.pc = "done"]
  /\ UNCHANGED <<hvars, arg>>

PagingNext ==
  \/ FetchPage
  \/ FetchFallback
  \/ FetchScanRaises
  \/ FetchReturn

\* the loop is sequential code: a round that can be run is run
Paging == FetchInit /\ [][PagingNext]_vars /\ WF_vars(PagingNext)

(***************************************************************************)
(* Properties.                                                             *)
(***************************************************************************)
\* the handler went through its category loop (no ping_only return)
Looped == pc \in {"loop", "done"} /\ ~(handler = "sitemap" /\ event.ping_only)

\* the posts of category c were read in this invocation
WasRead(c) == fetched[c].how \in {"ok", "scan"}

\* the keys under the path of category c
Under(c, ks) == {k \in ks : k[1] = Path(c)}

\* C1: a failure while fetching, rendering or uploading for one category
\* never aborts the invocation: at every point of the loop the categories
\* visited so far followed by the ones still to visit are the whole
\* processing list, and when the handler returns every one was visited.
C1_FailuresIsolated ==
  /\ Looped => visited \o todo = Categories(handler, event)
  /\ (Looped /\ pc = "done") => visited = Categories(handler, event)
  /\ (pc = "raised") => visited = <<>>

\* C1 witness: the feed handler returned after the read of the first of four
\* categories failed, and the last category's feed was written.
C1_Witness ==
  /\ handler = "rss" /\ pc = "done" /\ Len(visited) = 4
  /\ fetched[visited[1]].how = "fail"
  /\ RssKey(visited[4]) \in written

\* C2: when rendering one post of a category fails, every other post of
\* the category is still rendered into the documents the handler publishes,
\* in the HTML handler and in the feed handler alike.
C2_PostFailureIsolated ==
  pc = "done" =>
    \A c \in BLOG_CONFIGS :
      \A i \in 1..Len(fetched[c].pages) :
        LET p == fetched[c].pages[i] IN
        /\ (handler = "html" /\ ~HtmlPostRaises(p))
             => <<HtmlPostKey(c, p), p.id>> \in rendered
        /\ (handler = "rss" /\ ~AtomRaises(<<p>>))
             => /\ <<RssKey(c), p.id>> \in rendered
                /\ <<AtomKey(c), p.id>> \in rendered

\* the error entry e of the response is about the document at key k
ErrorIsAbout(e, k) ==
  \/ e.cat \in BLOG_CONFIGS /\ k[1] = Path(e.cat)
  \/ e.kind = "post" /\ Len(k) = 3
       /\ \E c \in BLOG_CONFIGS : \E i \in 1..Len(table[c]) :
            table[c][i].id = e.id /\ Slug(table[c][i]) = k[2]

\* C3: every publish failure is recorded: when the upload of a document
\* fails, the response of that invocation has an error entry for it.
C3_UploadFailureRecorded ==
  pc = "done" =>
    \A k \in attempted \ written : \E e \in errors : ErrorIsAbout(e, k)

\* C4: the status code is 200 exactly when nothing failed during the
\* invocation, and 207 when a fetch, render or publish failed.
C4_StatusReflectsFailures ==
  pc = "done" => /\ status = 200 <=> ~failed
                 /\ failed => status = 207

\* C5: for every payload a handler returns a response; no exception
\* escapes it.
C5_NeverRaises == pc # "raised"

\* C6: a category the configuration does not know is skipped: nothing is
\* processed, for it or in its place, and no error entry names it.
C6_UnknownSkipped ==
  (pc = "done" /\ event.category = Unknown) =>
    /\ \A i \in 1..Len(visited) : visited[i] \notin BLOG_CONFIGS
    /\ \A e \in errors : e.cat # Unknown
    /\ \A c \in BLOG_CONFIGS : Under(c, attempted) = {}

\* C7: when an upload fails for a category, none of the category's
\* documents was rewritten by this invocation (feed and sitemap handlers).
C7_NoPartialWrite ==
  (pc = "done" /\ handler \in {"rss", "sitemap"}) =>
    \A c \in BLOG_CONFIGS :
      Under(c, attempted \ written) # {} => Under(c, written) = {}

\* the invocation that just returned read the same posts and met the same
\* upload failures as the one before it
SameInputs ==
  /\ run > 1 /\ pc = "done"
  /\ fetched = prev.fetched
  /\ attempted \ written = prev.attempted \ prev.written

PublishedSince(p, d) == p.pub.kind \in {"iso", "naive"} /\ p.pub.day >= d

\* C9: on every date generate_news_sitemap keeps exactly the posts whose
\* published_at is at or after 00:00 UTC of the day two days before today.
C9_NewsCutoff ==
  \A c \in BLOG_CONFIGS :
    (handler = "sitemap" /\ WasRead(c)) =>
      /\ news[c].tag \in {"doc", "none"}
      /\ Ids(news[c].posts) =
           {fetched[c].posts[i].id : i \in
              {j \in 1..Len(fetched[c].posts) :
                 PublishedSince(fetched[c].posts[j], today - 2)}}

\* C10: when no post passes the recency filter generate_news_sitemap hands
\* back no document (it returns None whenever it gets as far as the filter),
\* and the handler uploads nothing under the category's sitemap-news.xml key
\* and puts no news entry in the sitemap index.
C10_NoNewsWhenEmpty ==
  \A c \in BLOG_CONFIGS :
    (handler = "sitemap" /\ WasRead(c)
       /\ \A i \in 1..Len(fetched[c].posts) :
            ~NewsKeeps(fetched[c].posts[i], today - 2)) =>
      /\ news[c].tag # "doc"
      /\ DayOfMonth(today) > 2 => news[c].tag = "none"
      /\ NewsKey(c) \notin attempted
      /\ NewsKey(c) \notin listed
      /\ NewsKey(c) \notin Range(indexed)

\* C10 witness: the sitemap handler returned after it read posts of a
\* category none of which was recent, wrote the category's main sitemap,
\* got no news document and wrote the index.
C10_Witness ==
  /\ handler = "sitemap" /\ pc = "done"
  /\ \E c \in BLOG_CONFIGS :
       /\ WasRead(c) /\ fetched[c].posts # <<>>
       /\ news[c].tag = "none"
       /\ SitemapKey(c) \in written
       /\ IndexKey \in written

\* the indexed query for the posts of category c failed in this invocation
QueryFailed(c) == fetched[c].how \in {"scan", "fail"}

\* the posts are in descending order of their published_at sort key
Descending(posts) ==
  \A i, j \in 1..Len(posts) : i < j => PubKey(posts[i]) >= PubKey(posts[j])

\* the limit each handler passes to its fetch_posts
Limit(h) ==
  CASE h = "html" -> HtmlLimit
    [] h = "rss" -> FeedLimit
    [] OTHER -> SitemapLimit

\* C18: in every handler, when the indexed query fails the fetch falls back
\* to a scan, and the posts it returns from the scan are in descending
\* order of publish time and at most the limit.
C18_FallbackScanSorted ==
  \A c \in BLOG_CONFIGS :
    QueryFailed(c) =>
      /\ c \in scanned
      /\ Descending(fetched[c].posts)
      /\ Len(fetched[c].posts) <= Limit(handler)

\* some engine was pinged in this invocation
Pinged == \E e \in Engines : pings[e] # "none"

\* the parts of C19 on the engines and on the response: when the handler
\* pings, every engine is tried once, and whatever the pings did the status
\* is 200 and the response lists exactly the documents that were stored
PingsHarmless ==
  /\ Pinged => \A e \in Engines : pings[e] \in {"ok", "fail"}
  /\ status = 200
  /\ listed = written

\* C19 as stated: the sitemap handler pings only after it uploaded the
\* sitemap index in the same invocation, or on a ping_only request, and
\* never when skip_ping is set; every engine is tried once and a failed
\* ping changes neither the status nor the published list.
C19_PingDiscipline ==
  (handler = "sitemap" /\ pc = "done") =>
    /\ Pinged => (IndexKey \in written \/ event.ping_only)
    /\ event.skip_ping => ~Pinged
    /\ PingsHarmless

\* C19 amended: skip_ping suppresses the pings of a request that is not
\* ping_only; a ping_only request pings whatever skip_ping says.
C19_PingUnlessSkipped ==
  (handler = "sitemap" /\ pc = "done") =>
    /\ Pinged => (event.ping_only \/ (IndexKey \in written /\ ~event.skip_ping))
    /\ (event.skip_ping /\ ~event.ping_only) => ~Pinged
    /\ event.ping_only => Pinged
    /\ PingsHarmless

\* C19 witness: the handler uploaded the index and pinged; one engine
\* failed, the others answered.
C19_Witness ==
  /\ handler = "sitemap" /\ pc = "done" /\ ~event.ping_only
  /\ IndexKey \in written
  /\ \E e, f \in Engines : pings[e] = "fail" /\ pings[f] = "ok"
  /\ status = 200

(***************************************************************************)
(* Properties of the renderers, checked under Render.                      *)
(***************************************************************************)
\* the renderer fn was called and handed back a document
Made(fn) == out.fn = fn /\ out.tag = "doc"

\* the age in whole days of an instant: the a with at + a days <= now <
\* at + (a + 1) days
AgeOf(at) ==
  CHOOSE a \in -2..400 : at + 24 * a <= Now /\ Now < at + 24 * (a + 1)

\* the change frequency the age a stands for
ByAge(a) ==
  CASE a < 7 -> "daily"
    [] 7 <= a /\ a < 30 -> "weekly"
    [] 30 <= a /\ a < 180 -> "monthly"
    [] OTHER -> "yearly"

IdsInOrder(posts) == [i \in 1..Len(posts) |-> posts[i].id]

\* the posts the elements of a document are about, in order
PostsOf(elems) == [i \in 1..Len(elems) |-> elems[i].post]

\* C12: generate_rss, generate_atom and generate_sitemap hand back a
\* document with exactly one element per post, in the order of the posts;
\* the sitemap starts with the entry of the category index page, priority
\* 1.0 and changefreq daily.
C12_OneElementPerPost ==
  /\ out.fn \in {"generate_rss", "generate_atom"} =>
       /\ out.tag = "doc"
       /\ PostsOf(out.elems) = IdsInOrder(arg.posts)
  /\ out.fn = "generate_sitemap" =>
       /\ out.tag = "doc"
       /\ Len(out.elems) = Len(arg.posts) + 1
       /\ out.elems[1].priority = "1.0" /\ out.elems[1].changefreq = "daily"
       /\ PostsOf(Tail(out.elems)) = IdsInOrder(arg.posts)

\* the image of a post: featured_image when the record has that key, else
\* image_url
ImageOf(p) ==
  IF p.featured_image # Absent THEN p.featured_image ELSE p.image_url

Carded == out.fn = "generate_affiliate_product_html" /\ out.card.tag = "card"

\* the link stored in a product, '#' when it has none
Stored(product) == IF product.link = <<>> THEN <<"#">> ELSE product.link

\* the last n pieces of a link
Ending(link, n) == SubSeq(link, Len(link) - n + 1, Len(link))

C15_BadNumberOmitted ==
  /\ out.fn = "generate_affiliate_product_html" =>
       /\ out.card.tag = "card"
       /\ arg.product.price.kind = "bad" => out.card.price = "none"
       /\ arg.product.rating.kind = "bad" => out.card.rating = "none"
  /\ out.fn = "generate_full_html_page" => out.tag = "page"

\* the post has no usable title
Untitled(p) == p.title \in {Absent, ""}

\* C16: for a post without a usable title, every title position of the
\* page, the index card, the RSS item and the Atom entry holds 'Untitled'.
C16_UntitledFallback ==
  /\ (out.fn = "generate_full_html_page" /\ out.tag = "page"
        /\ Untitled(arg.post)) =>
       /\ out.docTitle = "Untitled"
       /\ out.metaTitle = "Untitled"
       /\ out.h1 = "Untitled"
  /\ (out.fn \in {"generate_index_page", "generate_rss", "generate_atom"}
        /\ out.tag = "doc") =>
       \A i \in 1..Len(arg.posts) :
         Untitled(arg.posts[i]) => out.elems[i].title = "Untitled"

\* the reply is not the record asked for
Malformed(reply) ==
  reply.shape \in {"prose", "braces"} \/ ~(Required \subseteq reply.keys)

\* C17: when the reply of the text collaborator is not the record asked
\* for, the content handler publishes the page of the record made from the
\* topic and answers 200.
C17_FallbackOnMalformedReply ==
  (out.fn = "lambda_handler" /\ arg.blog_type \in BLOG_CONFIGS
     /\ arg.put /\ arg.save /\ Malformed(arg.reply)) =>
    /\ out.status = 200
    /\ out.from = "topic"
    /\ out.published = <<"posts">> \o Slugify(arg.topic) \o <<"index.html">>

\* published_at is present and does not parse
BadDate(p) == p.pub.kind = "bad"

\* C20: when published_at of a post does not parse no renderer raises: the
\* page and the index card show 'Recently', the sitemap, the RSS item and
\* the Atom entry carry the current time.
C20_BadDateNeverRaises ==
  /\ (out.fn = "generate_full_html_page" /\ BadDate(arg.post)
        /\ arg.post.products = <<>>) =>
       out.tag = "page" /\ out.date.text = "Recently"
  /\ (out.fn \in {"generate_index_page", "generate_rss", "generate_atom",
                  "generate_sitemap"}
        /\ \E i \in 1..Len(arg.posts) : BadDate(arg.posts[i])) =>
       /\ out.tag = "doc"
       /\ \A i \in 1..Len(arg.posts) :
            BadDate(arg.posts[i]) =>
              CASE out.fn = "generate_index_page" ->
                     out.elems[i].date.text = "Recently"
                [] out.fn = "generate_sitemap" ->
                     arg.posts[i].upd.kind = Absent
                       => out.elems[i + 1].lastmod = DateOf(Now)
                [] OTHER -> out.elems[i].date = Now

\* a timestamp fromisoformat accepts
Usable(stamp) == stamp.kind \in {"iso", "naive"}

\* C21: the lastmod of a post's sitemap entry is the date of updated_at when
\* that is usable, else the date of published_at when that is usable, else
\* today; an updated_at that does not parse falls through to published_at.
C21_LastmodPrecedence ==
  Made("generate_sitemap") =>
    \A i \in 1..Len(arg.posts) :
      LET p == arg.posts[i]
      IN out.elems[i + 1].lastmod =
           IF Usable(p.upd) THEN DateOf(p.upd.at)
           ELSE IF Usable(p.pub) THEN DateOf(p.pub.at)
           ELSE DateOf(Now)

\* the description the precedence meta_description, excerpt, '' gives
Described(p) ==
  IF p.meta_description # Absent THEN p.meta_description
  ELSE IF p.excerpt # Absent THEN p.excerpt
  ELSE ""

\* C22: the meta tags of a page, the description of an RSS item and the
\* summary of an Atom entry all carry meta_description when the post has
\* one, otherwise excerpt, otherwise the empty string.
C22_DescriptionPrecedence ==
  /\ (out.fn = "generate_full_html_page" /\ out.tag = "page") =>
       out.description = Described(arg.post)
  /\ Made("generate_rss") =>
       \A i \in 1..Len(arg.posts) :
         out.elems[i].description = Described(arg.posts[i])
  /\ Made("generate_atom") =>
       \A i \in 1..Len(arg.posts) :
         out.elems[i].summary = Described(arg.posts[i])

\* the tags the stored value v stands for: the items of a list, the list a
\* string beginning with '[' serializes, a plain string as the one tag
Normalized(v) ==
  IF v.kind = Absent THEN <<>>
  ELSE IF v.kind = "list" THEN v.items
  ELSE IF v.text # <<>> /\ v.text[1] = "["
    THEN CHOOSE items \in TagLists : Dumps(items) = v.text
  ELSE <<v.text>>

\* the stored tags are a list, a plain string or a string that serializes
\* a list
WellFormedTags(p) ==
  p.tags.kind = "str" /\ p.tags.text[1] = "["
    => \E items \in TagLists : Dumps(items) = p.tags.text

\* C23: the categories of an RSS item and of an Atom entry, the tag list of
\* a page and the keywords of a news-sitemap entry are the normalized tags
\* of the post: a string beginning with '[' is parsed, any other string is
\* one tag and is never split into characters, a list is used as it is, and
\* a post without tags has none.
C23_TagsNormalized ==
  /\ (out.fn = "generate_full_html_page" /\ out.tag = "page"
        /\ WellFormedTags(arg.post)) =>
       out.tags = Normalized(arg.post.tags)
  /\ (out.fn \in {"generate_rss", "generate_atom"}
        /\ \A i \in 1..Len(arg.posts) :
             WellFormedTags(arg.posts[i]) /\ arg.posts[i].pub.kind # "bad"
                                          /\ arg.posts[i].upd.kind # "bad") =>
       /\ out.tag = "doc"
       /\ \A i \in 1..Len(arg.posts) :
            out.elems[i].categories = Normalized(arg.posts[i].tags)
  /\ (Made("generate_news_sitemap")
        /\ \A i \in 1..Len(arg.posts) :
             WellFormedTags(arg.posts[i])
               /\ arg.posts[i].keywords.kind = Absent) =>
       \A j \in 1..Len(out.elems) :
         \E i \in 1..Len(arg.posts) :
           /\ arg.posts[i].id = out.elems[j].post
           /\ out.elems[j].keywords
                = Join(Normalized(arg.posts[i].tags), <<",", " ">>)

\* round() of a rating given in tenths: to the nearest whole number, a
\* half to the even one
Round(tenths) ==
  LET whole == tenths \div 10
      rest == tenths % 10
  IN IF rest < 5 THEN whole
     ELSE IF rest > 5 THEN whole + 1
     ELSE IF whole % 2 = 0 THEN whole ELSE whole + 1

\* C24: a product card with a numeric rating r shows round(r) filled stars
\* followed by 5 - round(r) empty stars, five stars in all; r = 4.6 shows
\* five filled stars and no empty one.
C24_StarsRounded ==
  (out.fn = "generate_affiliate_product_html" /\ out.card.tag = "card"
     /\ arg.product.rating.kind = "num") =>
    LET r == arg.product.rating.n
    IN /\ out.card.stars
            = Times("filled", Round(r)) \o Times("empty", 5 - Round(r))
       /\ Len(out.card.stars) = 5
       /\ r = 46 => out.card.stars = Times("filled", 5)

\* floor(words / 200), at least 1
Minutes(words) == IF words < 200 THEN 1 ELSE words \div 200

\* C25: the reading time on a post page is max(1, floor(words of the
\* content / 200)) minutes and never 0, on the page of the static HTML
\* generator and on the page of the content generator.
C25_ReadingTimeAtLeastOne ==
  /\ (out.fn = "generate_full_html_page" /\ out.tag = "page") =>
       out.reading = Minutes(arg.post.content.words)
  /\ (out.fn = "lambda_handler" /\ out.status = 200) =>
       out.reading = Minutes(arg.reply.words)

(***************************************************************************)
(* Properties of fetch_posts, checked under Paging.                        *)
(***************************************************************************)
\* following the cursors from the first page leads to a page without one
RECURSIVE EndsFrom(_, _, _)
EndsFrom(storage, at, fuel) ==
  IF storage[at].next = 0 THEN TRUE
  ELSE IF fuel = 0 THEN FALSE
  ELSE EndsFrom(storage, storage[at].next, fuel - 1)

Ends(storage) == EndsFrom(storage, 1, Len(storage))

\* the items of the pages asked, in the order they were asked
RECURSIVE Concat(_, _)
Concat(storage, asked) ==
  IF asked = <<>> THEN <<>>
  ELSE storage[Head(asked)].items \o Concat(storage, Tail(asked))

\* fetch_posts is over: it returned or raised
Over == out.pc \in {"done", "raised"}

\* the pages asked follow the cursors from the first page, and a page was
\* asked after another only when that one came with a cursor and fewer than
\* limit posts had been collected
FollowsCursor ==
  \A i \in 1..Len(out.asked) :
    IF i = 1 THEN out.asked[i] = 1
    ELSE /\ arg.storage[out.asked[i - 1]].next = out.asked[i]
         /\ Len(Concat(arg.storage, SubSeq(out.asked, 1, i - 1))) < arg.limit

\* what fetch_posts hands back
FetchSafe ==
  arg.fn = "fetch_posts" =>
    /\ FollowsCursor
    /\ out.pc = "done" =>
         /\ Len(out.posts) <= arg.limit
         /\ out.how = "query" =>
              out.posts = Take(Concat(arg.storage, out.asked), arg.limit)
         /\ out.how = "scan" => out.posts = Take(ScanItems, arg.limit)

\* C26: fetch_posts follows the cursor page by page, asking for a next page
\* only while a cursor was returned and fewer than limit posts are
\* collected; it ends whenever the storage comes to a page without a cursor;
\* it returns the pages in fetch order, never more than limit posts, and
\* after a failing query only what the scan returned.
C26_Pagination ==
  /\ []FetchSafe
  /\ (arg.fn = "fetch_posts" /\ Ends(arg.storage)) ~> Over

\* C26 witness: three pages were followed and the result was cut to the
\* limit.
C26_Witness ==
  /\ arg.fn = "fetch_posts" /\ out.pc = "done" /\ out.how = "query"
  /\ out.asked = <<1, 2, 3>>
  /\ Len(Concat(arg.storage, out.asked)) > arg.limit
  /\ Len(out.posts) = arg.limit

(***************************************************************************)
(* Properties of the handlers, continued; checked under Spec.              *)
(***************************************************************************)
\* the keys of the sitemap documents the index can list
SitemapDocs ==
  {SitemapKey(c) : c \in BLOG_CONFIGS} \cup {NewsKey(c) : c \in BLOG_CONFIGS}
    \cup {StaticKey}

\* the sitemap handler returned from a generating invocation
Generated == handler = "sitemap" /\ pc = "done" /\ ~event.ping_only

\* C27: the sitemap index an invocation publishes lists exactly the sitemap
\* documents (main, news, static) whose upload succeeded in that invocation;
\* an invocation for one category lists only that category's sitemaps and
\* the static one; no index is made when no upload succeeded.
C27_IndexListsUploads ==
  Generated =>
    /\ IndexKey \in attempted => Range(indexed) = written \cap SitemapDocs
    /\ written \cap SitemapDocs = {} => IndexKey \notin attempted
    /\ written \cap SitemapDocs # {} => IndexKey \in attempted
    /\ event.category \in BLOG_CONFIGS =>
         Range(indexed) \subseteq {SitemapKey(event.category),
                                   NewsKey(event.category), StaticKey}

\* C27 witness: an invocation for one category published an index that
\* lists a sitemap of the category although another sitemap's upload failed.
C27_Witness ==
  /\ Generated /\ event.category \in BLOG_CONFIGS
  /\ IndexKey \in written
  /\ \E k \in (attempted \cap SitemapDocs) \ written : k \notin Range(indexed)
  /\ \E k \in written \cap SitemapDocs : k \in Range(indexed)

\* C28: every artifact a response lists as generated or published (HTML
\* 'generated', feed 'success', sitemap entries with a url) was uploaded in
\* that invocation; an artifact whose upload failed or whose rendering
\* raised is never listed.
C28_ListedWereUploaded ==
  /\ listed \subseteq written
  /\ listed \cap (attempted \ written) = {}
  /\ \A c \in BLOG_CONFIGS :
       \A i \in 1..Len(fetched[c].pages) :
         (handler = "html" /\ HtmlPostRaises(fetched[c].pages[i])) =>
           HtmlPostKey(c, fetched[c].pages[i]) \notin listed

\* C28 witness: a finished invocation lists an uploaded artifact and leaves
\* out one whose upload failed.
C28_Witness ==
  /\ pc = "done"
  /\ listed # {}
  /\ attempted \ written # {}

\* the feed handler read the posts of category c and found none
FoundNone(c) == fetched[c].how \in {"ok", "scan"} /\ fetched[c].posts = <<>>

\* C29: when the feed handler finds no posts for a category, also after the
\* fallback scan, it publishes neither feed.xml nor atom.xml for it, records
\* a 'No posts found' failure, goes on with the next category, and answers
\* 207.
C29_NoPostsNoFeed ==
  handler = "rss" =>
    \A c \in BLOG_CONFIGS :
      FoundNone(c) =>
        /\ {RssKey(c), AtomKey(c)} \cap attempted = {}
        /\ ErrorEntry("blog", c, Absent, "No posts found") \in errors
        /\ visited \o todo = Categories("rss", event)
        /\ pc = "done" =>
             /\ visited = Categories("rss", event)
             /\ status = 207

\* C29 witness: a first category without posts after a scan, a later
\* category whose feeds were published, status 207.
C29_Witness ==
  /\ handler = "rss" /\ pc = "done" /\ status = 207
  /\ \E i, j \in 1..Len(visited) :
       /\ i < j
       /\ visited[i] \in BLOG_CONFIGS /\ visited[j] \in BLOG_CONFIGS
       /\ FoundNone(visited[i]) /\ fetched[visited[i]].how = "scan"
       /\ {RssKey(visited[j]), AtomKey(visited[j])} \subseteq written

\* the sitemap handler is in, or returned from, a ping_only invocation
PingOnlyRun == handler = "sitemap" /\ event.ping_only /\ pc # "raised"

\* nothing was read, rendered or handed to upload_to_s3 in this invocation
NothingDone ==
  /\ \A c \in BLOG_CONFIGS : fetched[c] = NotFetched /\ news[c] = NoNews
  /\ scanned = {} /\ rendered = {} /\ indexed = <<>>
  /\ attempted = {} /\ written = {} /\ listed = {}

\* C30: a ping_only invocation of the sitemap handler fetches no posts,
\* renders no sitemap, uploads nothing (no sitemap, index or robots.txt) and
\* leaves the storage as it was; it pings every engine and returns 200.
C30_PingOnlyFrame ==
  /\ [](PingOnlyRun =>
          /\ NothingDone
          /\ pc = "done" /\ status = 200
          /\ \A e \in Engines : pings[e] \in {"ok", "fail"})
  /\ [][(handler' = "sitemap" /\ event'.ping_only)
          => store' = store /\ table' = table]_vars

\* C30 witness: a ping_only invocation returned 200 with an engine that
\* answered and one that did not.
C30_Witness ==
  /\ PingOnlyRun /\ pc = "done" /\ status = 200
  /\ \E e, f \in Engines : pings[e] = "ok" /\ pings[f] = "fail"
  /\ attempted = {}
====
